---- MODULE Spec2Model ----
(***************************************************************************)
(* Sales dashboards of the repository: the toy-store page (toy.py), the    *)
(* transportation page (transportation.py) and the prediction page         *)
(* (predict.py).  A page is a Streamlit script: every interaction of the   *)
(* user changes one widget and re-executes the script from top to bottom.  *)
(*                                                                         *)
(* Four specifications share the variables:                                *)
(*   SpecFilter   filter_data as a function, and the chain of three calls  *)
(*                main makes of it;                                        *)
(*   SpecKpi      calculate_kpis as a function, over a dataset and over    *)
(*                the parts of the dataset by the value of a column;       *)
(*   Spec         the two dashboards, one interaction per step;            *)
(*   SpecPredict  the prediction page, one interaction per step.           *)
(*                                                                         *)
(* A dataset is a sequence of rows (a DataFrame keeps the order of its     *)
(* rows); a row is a record of the columns the code reads.  A list of      *)
(* selected values is a sequence.  SALES is an integer amount.             *)
(***************************************************************************)
EXTENDS Integers, Sequences, FiniteSets, TLC

VARIABLES
    data,      \* the DataFrame load_data returns (never modified)
    f_call,    \* SpecFilter: the last call of filter_data or of the chain
    k_call,    \* SpecKpi: the last call of calculate_kpis
    page,      \* Spec: which dashboard script the session runs
    widgets,   \* Spec: the values the widgets hold between runs
    view,      \* Spec: what the last run of main computed and rendered
    p_sel,     \* SpecPredict: the three selectboxes
    p_view     \* SpecPredict: what the last run of the script did

vars == <<data, f_call, k_call, page, widgets, view, p_sel, p_view>>

----------------------------------------------------------------------------
(* Bounds of the model *)

MaxFilterRows == 3
MaxVals == 2
MaxKpiRows == 3
MaxRows == 2
MaxDate == 2
MaxPredictRows == 4

(* Values of the columns *)

ProductLines == {"Classic Cars", "Planes"}
Countries == {"France", "USA"}
Statuses == {"Cancelled", "Shipped"}
Orders == {10100, 10101}
Customers == {"Atelier graphique", "Land of Toys Inc."}
Quarters == {1, 2}
Dates == 1..MaxDate
Columns == <<"PRODUCTLINE", "COUNTRY", "STATUS">>
ColumnValues(column) ==
    CASE column = "PRODUCTLINE" -> ProductLines
      [] column = "COUNTRY" -> Countries
      [] column = "STATUS" -> Statuses

Range(s) == {s[i] : i \in DOMAIN s}
SeqsUpTo(S, n) == UNION {[1..k -> S] : k \in 0..n}
SeqsFromTo(S, m, n) == UNION {[1..k -> S] : k \in m..n}

(* A row of the CSV file: the columns the three scripts read. *)
Row(o, c, s, d, p, co, st, q) ==
    [ORDERNUMBER |-> o, CUSTOMERNAME |-> c, SALES |-> s, ORDERDATE |-> d,
     PRODUCTLINE |-> p, COUNTRY |-> co, STATUS |-> st, QTR_ID |-> q]

----------------------------------------------------------------------------
(* pandas and Streamlit operations the scripts call *)

(* Series.unique(): the distinct values in order of first appearance. *)
RECURSIVE unique(_, _)
unique(d, column) ==
    IF d = <<>> THEN <<>>
    ELSE LET front == unique(SubSeq(d, 1, Len(d) - 1), column)
             v == d[Len(d)][column]
         IN IF v \in Range(front) THEN front ELSE Append(front, v)

(* Series.nunique(): the number of distinct values. *)
nunique(d, column) == Cardinality({d[i][column] : i \in DOMAIN d})

(* Series.sum(). *)
RECURSIVE sum(_, _)
sum(d, column) ==
    IF d = <<>> THEN 0 ELSE d[1][column] + sum(Tail(d), column)

(* st.multiselect: some of the options, each at most once, in the order   *)
(* the user picked them.                                                  *)
multiselect(options) ==
    {s \in SeqsUpTo(Range(options), Len(options)) :
        \A i, j \in DOMAIN s : i # j => s[i] # s[j]}

----------------------------------------------------------------------------
(* filter_data *)

(* A plausible slip: the empty selection is not treated apart, so that it *)
(* excludes every row.                                                    *)
filter_data_no_passthrough(d, column, values) ==
    SelectSeq(d, LAMBDA r : r[column] \in Range(values))

(* A plausible slip: only the first selected value is compared. *)
filter_data_first_value(d, column, values) ==
    IF Len(values) > 0
    THEN SelectSeq(d, LAMBDA r : r[column] = values[1])
    ELSE d

(* data[data[column].isin(values)] if values else data *)
filter_data(d, column, values) ==
    IF Len(values) > 0
    THEN SelectSeq(d, LAMBDA r : r[column] \in Range(values))
    ELSE d

(* A plausible slip: every call filters the loaded data again, and the    *)
(* result of the calls before it is lost.                                 *)
apply_filters_unchained(d, order, sel) ==
    IF order = <<>> THEN d
    ELSE filter_data(d, order[Len(order)], sel[order[Len(order)]])

(* filtered_data = filter_data(filtered_data, column, selected) for the   *)
(* columns of order, one after the other, as main does.                   *)
RECURSIVE apply_filters(_, _, _)
apply_filters(d, order, sel) ==
    IF order = <<>> THEN d
    ELSE LET before == apply_filters(d, SubSeq(order, 1, Len(order) - 1), sel)
             column == order[Len(order)]
         IN filter_data(before, column, sel[column])

(* The orders in which three filters can be applied. *)
Orders3 == {o \in [1..3 -> Range(Columns)] : Range(o) = Range(Columns)}

----------------------------------------------------------------------------
(* SpecFilter: filter_data and the chain of filters, over every dataset    *)
(* of at most MaxFilterRows rows and every list of at most MaxVals values. *)

FilterRows ==
    {Row(10100, "Atelier graphique", 100, 1, p, co, st, 1) :
        p \in ProductLines, co \in Countries, st \in Statuses}

(* A value no row holds can be asked for too. *)
Absent == "(absent)"

NoSel == [c \in Range(Columns) |-> <<>>]
NoFilterCall ==
    [op |-> "none", column |-> "PRODUCTLINE", values |-> <<>>,
     sel |-> NoSel, order |-> <<>>, result |-> <<>>]
NoTotals == [total_sales |-> 0, total_orders |-> 0, unique_customers |-> 0]
NoKpiCall ==
    [op |-> "none", kpis |-> <<>>, column |-> "PRODUCTLINE", whole |-> NoTotals,
     parts |-> <<>>]
NoWidgets == [start_date |-> 1, end_date |-> 1, selected_product_lines |-> <<>>,
              selected_countries |-> <<>>, selected_statuses |-> <<>>,
              combine_product_lines |-> TRUE, feedback |-> FALSE]
NoView == [trigger |-> "none", search_button |-> FALSE, filtered_data |-> <<>>,
           kpis |-> <<>>, shown |-> {}, feedback_msg |-> "none"]
NoPSel == [selected_product |-> "Classic Cars", selected_country |-> "France",
           selected_quarter |-> 1]
NoPView == [trigger |-> "none", n |-> 0, trained |-> FALSE, adjusted_r2 |-> "none",
            denominator |-> 1, shown |-> {}, crashed |-> FALSE]

InitFilter ==
    /\ data \in SeqsUpTo(FilterRows, MaxFilterRows)
    /\ f_call = NoFilterCall
    /\ k_call = NoKpiCall
    /\ page = "none"
    /\ widgets = NoWidgets
    /\ view = NoView
    /\ p_sel = NoPSel
    /\ p_view = NoPView

(* One call filter_data(data, column, values). *)
CallFilterData ==
    /\ f_call.op = "none"
    /\ \E column \in Range(Columns) :
         \E values \in SeqsUpTo(ColumnValues(column) \cup {Absent}, MaxVals) :
            f_call' = [NoFilterCall EXCEPT !.op = "filter_data", !.column = column,
                          !.values = values,
                          !.result = filter_data(data, column, values)]
    /\ UNCHANGED <<data, k_call, page, widgets, view, p_sel, p_view>>

(* The three calls of main, in any order, with what the three multiselects *)
(* can return.                                                             *)
CallFilterChain ==
    /\ f_call.op = "none"
    /\ \E order \in Orders3 :
         \E pl \in multiselect(unique(data, "PRODUCTLINE")) :
           \E co \in multiselect(unique(data, "COUNTRY")) :
             \E st \in multiselect(unique(data, "STATUS")) :
               LET sel == [c \in Range(Columns) |->
                             CASE c = "PRODUCTLINE" -> pl
                               [] c = "COUNTRY" -> co
                               [] c = "STATUS" -> st]
               IN f_call' = [NoFilterCall EXCEPT !.op = "chain", !.order = order,
                                !.sel = sel,
                                !.result = apply_filters(data, order, sel)]
    /\ UNCHANGED <<data, k_call, page, widgets, view, p_sel, p_view>>

NextFilter == CallFilterData \/ CallFilterChain
SpecFilter == InitFilter /\ [][NextFilter]_vars

(* The rows of d at the indexes idx, in the order of d: the result has one *)
(* row per index, and the row of index i stands at the position that       *)
(* counts the indexes up to i.                                             *)
IsRowsAt(result, d, idx) ==
    /\ Len(result) = Cardinality(idx)
    /\ \A i \in idx : result[Cardinality({j \in idx : j <= i})] = d[i]

(* C1: filter_data with an empty list of allowed values returns the       *)
(* dataset unchanged, same rows in the same order, whatever the column.    *)
C1_EmptySelectionIsIdentity ==
    (f_call.op = "filter_data" /\ f_call.values = <<>>) => f_call.result = data

C1_Witness ==
    /\ f_call.op = "filter_data"
    /\ f_call.values = <<>>
    /\ Len(data) >= 2
    /\ data[1] # data[2]
    /\ f_call.result = data

(* C2: filter_data with a non-empty list of allowed values returns exactly *)
(* the rows whose value in the column is in the list, each once, in their  *)
(* original relative order, and no other row.                              *)
C2_FilterKeepsExactlyMembers ==
    (f_call.op = "filter_data" /\ f_call.values # <<>>) =>
        IsRowsAt(f_call.result, data,
                 {i \in DOMAIN data : \E k \in DOMAIN f_call.values :
                                         data[i][f_call.column] = f_call.values[k]})

C2_Witness ==
    /\ f_call.op = "filter_data"
    /\ Len(f_call.values) = 2
    /\ Len(data) = 3
    /\ Len(f_call.result) = 2
    /\ f_call.result[1] # f_call.result[2]
    /\ f_call.result[1][f_call.column] = f_call.values[2]
    /\ f_call.result[2] = data[3]
    /\ f_call.result[1] = data[1]

(* C3: the three filters of main, applied one after the other in any       *)
(* order, give the rows that satisfy the conjunction of the three          *)
(* membership tests (an empty selection counting as true), in the order    *)
(* of the dataset; so every order of application gives the same result.    *)
C3_ChainIsConjunction ==
    f_call.op = "chain" =>
        IsRowsAt(f_call.result, data,
                 {i \in DOMAIN data : \A k \in DOMAIN Columns :
                     \/ f_call.sel[Columns[k]] = <<>>
                     \/ \E m \in DOMAIN f_call.sel[Columns[k]] :
                           data[i][Columns[k]] = f_call.sel[Columns[k]][m]})

C3_Witness ==
    /\ f_call.op = "chain"
    /\ f_call.order = <<"STATUS", "PRODUCTLINE", "COUNTRY">>
    /\ f_call.sel["PRODUCTLINE"] # <<>>
    /\ f_call.sel["COUNTRY"] # <<>>
    /\ f_call.sel["STATUS"] = <<>>
    /\ Len(data) = 3
    /\ Len(f_call.result) = 1
    /\ Len(filter_data(data, "PRODUCTLINE", f_call.sel["PRODUCTLINE"])) = 2
    /\ Len(filter_data(data, "COUNTRY", f_call.sel["COUNTRY"])) = 2

----------------------------------------------------------------------------
(* calculate_kpis *)

MILLION == 1000000
THOUSAND == 1000

(* What f"{num / den:.2f}" prints, as a number of hundredths.  The        *)
(* quotient is a binary floating-point number: it is printed rounded to    *)
(* the nearest hundredth, and a quotient halfway between two hundredths    *)
(* is printed as the one or the other (its nearest double lies on either   *)
(* side).  total_sales is a numpy number, so that a division by zero does  *)
(* not raise: the quotient is nan and "nan" is printed.                    *)
NotANumber == [finite |-> FALSE, hundredths |-> 0]
Hundredths(h) == [finite |-> TRUE, hundredths |-> h]
format_2f(num, den) ==
    IF den = 0 THEN {NotANumber}
    ELSE LET q == (100 * num) \div den
             r == (100 * num) % den
         IN CASE 2 * r < den -> {Hundredths(q)}
              [] 2 * r > den -> {Hundredths(q + 1)}
              [] OTHER -> {Hundredths(q), Hundredths(q + 1)}

(* A plausible slip: count() for nunique(), the rows and not the distinct  *)
(* values.                                                                 *)
kpi_totals_row_counts(d) ==
    [total_sales |-> sum(d, "SALES"),
     total_orders |-> Len(d),
     unique_customers |-> Len(d)]

(* The three totals calculate_kpis computes before it formats them. *)
kpi_totals(d) ==
    [total_sales |-> sum(d, "SALES"),
     total_orders |-> nunique(d, "ORDERNUMBER"),
     unique_customers |-> nunique(d, "CUSTOMERNAME")]

(* A plausible slip: the average is taken per row (per order line) and not *)
(* per distinct order.                                                     *)
calculate_kpis_per_row(d) ==
    LET t == kpi_totals(d)
    IN {<<sales_in_m, t.total_orders, average_sales_per_order, t.unique_customers>> :
          sales_in_m \in format_2f(t.total_sales, MILLION),
          average_sales_per_order \in format_2f(t.total_sales, Len(d) * THOUSAND)}

(* The lists calculate_kpis can return:                                    *)
(* [sales_in_m, total_orders, average_sales_per_order, unique_customers].  *)
calculate_kpis(d) ==
    LET t == kpi_totals(d)
    IN {<<sales_in_m, t.total_orders, average_sales_per_order, t.unique_customers>> :
          sales_in_m \in format_2f(t.total_sales, MILLION),
          average_sales_per_order \in format_2f(t.total_sales, t.total_orders * THOUSAND)}

----------------------------------------------------------------------------
(* SpecKpi: calculate_kpis over every dataset of at most MaxKpiRows rows,  *)
(* and over the parts of the dataset by the value of a column.  A customer *)
(* lives in one country and an order has one status; an order can hold     *)
(* several product lines and a customer can buy several.                   *)

KpiSales == {50, 100, 150}
CountryOf(c) == IF c = "Atelier graphique" THEN "France" ELSE "USA"
StatusOf(o) == IF o = 10100 THEN "Shipped" ELSE "Cancelled"
KpiRows ==
    {Row(o, c, s, 1, p, CountryOf(c), StatusOf(o), 1) :
        o \in Orders, c \in Customers, s \in KpiSales, p \in ProductLines}

InitKpi ==
    /\ data \in SeqsUpTo(KpiRows, MaxKpiRows)
    /\ f_call = NoFilterCall
    /\ k_call = NoKpiCall
    /\ page = "none"
    /\ widgets = NoWidgets
    /\ view = NoView
    /\ p_sel = NoPSel
    /\ p_view = NoPView

(* One call calculate_kpis(data). *)
CallCalculateKpis ==
    /\ k_call.op = "none"
    /\ \E kpis \in calculate_kpis(data) :
          k_call' = [NoKpiCall EXCEPT !.op = "calculate_kpis", !.kpis = kpis]
    /\ UNCHANGED <<data, f_call, page, widgets, view, p_sel, p_view>>

(* The totals of the dataset and of each of its parts by the value of a    *)
(* column: the part of value v is filter_data(data, column, [v]).          *)
CallPartitionKpis ==
    /\ k_call.op = "none"
    /\ \E column \in Range(Columns) :
          k_call' = [NoKpiCall EXCEPT
                        !.op = "partition", !.column = column,
                        !.whole = kpi_totals(data),
                        !.parts = [v \in Range(unique(data, column)) |->
                                     kpi_totals(filter_data(data, column, <<v>>))]]
    /\ UNCHANGED <<data, f_call, page, widgets, view, p_sel, p_view>>

NextKpi == CallCalculateKpis \/ CallPartitionKpis
SpecKpi == InitKpi /\ [][NextKpi]_vars

RECURSIVE SumOver(_, _)
SumOver(f, S) ==
    IF S = {} THEN 0
    ELSE LET x == CHOOSE y \in S : TRUE IN f[x] + SumOver(f, S \ {x})

(* The sum of SALES over the rows, row by row from the last. *)
RECURSIVE TotalOf(_)
TotalOf(d) ==
    IF Len(d) = 0 THEN 0 ELSE TotalOf(SubSeq(d, 1, Len(d) - 1)) + d[Len(d)].SALES

(* h hundredths is num / den rounded to the nearest hundredth. *)
IsRounded(f, num, den) ==
    /\ f.finite
    /\ 2 * (100 * num - f.hundredths * den) <= den
    /\ 2 * (f.hundredths * den - 100 * num) <= den

(* C4: on a dataset with at least one order, calculate_kpis returns the    *)
(* sum of SALES divided by 1,000,000, the number of distinct ORDERNUMBER,  *)
(* the sum of SALES divided by the order count and by 1,000, and the       *)
(* number of distinct CUSTOMERNAME, the two amounts printed with two       *)
(* decimals.                                                               *)
C4_KpisAreTheFourStatistics ==
    (k_call.op = "calculate_kpis" /\ Len(data) > 0) =>
        LET orders == {data[i].ORDERNUMBER : i \in DOMAIN data}
            customers == {data[i].CUSTOMERNAME : i \in DOMAIN data}
        IN /\ Len(k_call.kpis) = 4
           /\ IsRounded(k_call.kpis[1], TotalOf(data), 1000000)
           /\ k_call.kpis[2] = Cardinality(orders)
           /\ IsRounded(k_call.kpis[3], TotalOf(data), Cardinality(orders) * 1000)
           /\ k_call.kpis[4] = Cardinality(customers)

(* The scenario of the specification: three rows of sales 50, 100, 150, in *)
(* two orders, total 300 and average 300 / 2 / 1000 = 0.15.                *)
C4_Witness ==
    /\ k_call.op = "calculate_kpis"
    /\ Len(data) = 3
    /\ <<data[1].SALES, data[2].SALES, data[3].SALES>> = <<50, 100, 150>>
    /\ data[1].ORDERNUMBER = data[2].ORDERNUMBER
    /\ k_call.kpis[2] = 2
    /\ k_call.kpis[3] = Hundredths(15)
    /\ k_call.kpis[4] = 1

PartSum(field) ==
    SumOver([v \in DOMAIN k_call.parts |-> k_call.parts[v][field]], DOMAIN k_call.parts)

(* No value of the key column occurs in rows of two different parts. *)
NoValueAcrossParts(key) ==
    \A i, j \in DOMAIN data :
        data[i][key] = data[j][key] => data[i][k_call.column] = data[j][k_call.column]

(* C8 as stated: over the parts of the dataset by the value of any         *)
(* categorical column, the sales sums, the order counts and the customer   *)
(* counts of the parts each add up to that of the whole dataset.           *)
C8_Original_AllTotalsAdditive ==
    k_call.op = "partition" =>
        /\ k_call.whole.total_sales = PartSum("total_sales")
        /\ k_call.whole.total_orders = PartSum("total_orders")
        /\ k_call.whole.unique_customers = PartSum("unique_customers")

(* C8 amended: the sales sums of the parts add up to the sales sum of the  *)
(* dataset; the order counts and the customer counts of the parts add up   *)
(* to at least the count of the dataset, and to exactly that count if and  *)
(* only if no ORDERNUMBER (no CUSTOMERNAME) occurs in two parts.           *)
C8_SalesAdditiveCountsSubadditive ==
    k_call.op = "partition" =>
        /\ k_call.whole.total_sales = PartSum("total_sales")
        /\ k_call.whole.total_sales = TotalOf(data)
        /\ k_call.whole.total_orders <= PartSum("total_orders")
        /\ (k_call.whole.total_orders = PartSum("total_orders"))
              <=> NoValueAcrossParts("ORDERNUMBER")
        /\ k_call.whole.unique_customers <= PartSum("unique_customers")
        /\ (k_call.whole.unique_customers = PartSum("unique_customers"))
              <=> NoValueAcrossParts("CUSTOMERNAME")

(* One order of one customer with lines of two product lines, and a second *)
(* order: two parts, whose order counts add up to 3 for 2 orders.          *)
C8_Witness ==
    /\ k_call.op = "partition"
    /\ k_call.column = "PRODUCTLINE"
    /\ Len(data) = 3
    /\ Cardinality(DOMAIN k_call.parts) = 2
    /\ k_call.whole.total_orders = 2
    /\ PartSum("total_orders") = 3
    /\ k_call.whole.unique_customers = 1
    /\ PartSum("unique_customers") = 2
    /\ k_call.whole.total_sales = 300
    /\ PartSum("total_sales") = 300

----------------------------------------------------------------------------
(* Spec: the two dashboards.  Streamlit runs main once when the page is    *)
(* opened and once more after every interaction; a button returns True     *)
(* only in the run its click starts, and a widget that a run does not      *)
(* create loses its value.                                                 *)

DashRows ==
    {Row(10100, "Atelier graphique", 100, d, p, co, "Shipped", 1) :
        d \in Dates, p \in ProductLines, co \in Countries}

Elements == {"kpi", "charts", "export"}

(* sorted(): the product lines in alphabetical order. *)
sorted(values) ==
    SelectSeq(<<"Classic Cars", "Planes">>, LAMBDA v : v \in Range(values))

min_date(d) == CHOOSE x \in Range(unique(d, "ORDERDATE")) :
                  \A y \in Range(unique(d, "ORDERDATE")) : x <= y
max_date(d) == CHOOSE x \in Range(unique(d, "ORDERDATE")) :
                  \A y \in Range(unique(d, "ORDERDATE")) : x >= y

(* display_sidebar: the value each widget has before the user touches it. *)
display_sidebar(d) ==
    [start_date |-> min_date(d),
     end_date |-> max_date(d),
     selected_product_lines |-> sorted(unique(d, "PRODUCTLINE")),
     selected_countries |-> <<>>,
     selected_statuses |-> <<>>,
     combine_product_lines |-> TRUE,
     feedback |-> FALSE]

(* What display_sidebar returns to main: the three selections (and, in     *)
(* toy.py, the Search button); start_date and end_date are not returned.   *)
selections(w) ==
    [c \in Range(Columns) |->
        CASE c = "PRODUCTLINE" -> w.selected_product_lines
          [] c = "COUNTRY" -> w.selected_countries
          [] c = "STATUS" -> w.selected_statuses]

(* The dashboard part of main: the three filters, the KPIs, the charts and *)
(* the download button.                                                    *)
dashboard(d, w, trigger, search_button, feedback_msg) ==
    LET filtered_data == apply_filters(d, Columns, selections(w))
    IN {[trigger |-> trigger, search_button |-> search_button,
         filtered_data |-> filtered_data, kpis |-> kpis, shown |-> Elements,
         feedback_msg |-> feedback_msg] : kpis \in calculate_kpis(filtered_data)}

(* user_feedback: the message under the feedback box. *)
user_feedback(w, trigger) ==
    IF trigger = "feedback"
    THEN IF w.feedback THEN "success" ELSE "warning"
    ELSE "none"

(* main of transportation.py: the views one run can end with. *)
transportation_main(d, w, trigger) ==
    dashboard(d, w, trigger, FALSE, "none")

(* main of toy.py: the dashboard is inside "if search_button:". *)
toy_main(d, w, trigger) ==
    LET search_button == (trigger = "search")
    IN IF search_button
       THEN dashboard(d, w, trigger, TRUE, user_feedback(w, trigger))
       ELSE {[NoView EXCEPT !.trigger = trigger,
                            !.feedback_msg = user_feedback(w, trigger)]}

main(pg, d, w, trigger) ==
    IF pg = "toy" THEN toy_main(d, w, trigger) ELSE transportation_main(d, w, trigger)

Init ==
    /\ data \in SeqsFromTo(DashRows, 1, MaxRows)
    /\ f_call = NoFilterCall
    /\ k_call = NoKpiCall
    /\ page \in {"toy", "transportation"}
    /\ widgets = display_sidebar(data)
    /\ view = NoView
    /\ p_sel = NoPSel
    /\ p_view = NoPView

(* One run of the script with the widget values w.  The checkbox of        *)
(* display_charts exists only in a run that shows the charts.              *)
Rerun(w, trigger) ==
    /\ \E v \in main(page, data, w, trigger) :
          /\ view' = v
          /\ widgets' = IF "charts" \in v.shown THEN w
                        ELSE [w EXCEPT !.combine_product_lines = TRUE]
    /\ UNCHANGED <<data, f_call, k_call, page, p_sel, p_view>>

Open ==
    /\ view.trigger = "none"
    /\ Rerun(widgets, "open")

ChangeStartDate ==
    /\ view.trigger # "none"
    /\ \E d \in Dates \ {widgets.start_date} :
          Rerun([widgets EXCEPT !.start_date = d], "filter")

ChangeEndDate ==
    /\ view.trigger # "none"
    /\ \E d \in Dates \ {widgets.end_date} :
          Rerun([widgets EXCEPT !.end_date = d], "filter")

ChangeProductLines ==
    /\ view.trigger # "none"
    /\ \E s \in multiselect(sorted(unique(data, "PRODUCTLINE"))) \ {widgets.selected_product_lines} :
          Rerun([widgets EXCEPT !.selected_product_lines = s], "filter")

ChangeCountries ==
    /\ view.trigger # "none"
    /\ \E s \in multiselect(unique(data, "COUNTRY")) \ {widgets.selected_countries} :
          Rerun([widgets EXCEPT !.selected_countries = s], "filter")

ChangeStatuses ==
    /\ view.trigger # "none"
    /\ \E s \in multiselect(unique(data, "STATUS")) \ {widgets.selected_statuses} :
          Rerun([widgets EXCEPT !.selected_statuses = s], "filter")

ToggleCombine ==
    /\ "charts" \in view.shown
    /\ Rerun([widgets EXCEPT !.combine_product_lines = ~@], "combine")

EditFeedback ==
    /\ view.trigger # "none"
    /\ page = "toy"
    /\ Rerun([widgets EXCEPT !.feedback = ~@], "text")

PressSearch ==
    /\ view.trigger # "none"
    /\ page = "toy"
    /\ Rerun(widgets, "search")

SubmitFeedback ==
    /\ view.trigger # "none"
    /\ page = "toy"
    /\ Rerun(widgets, "feedback")

Next ==
    \/ Open
    \/ ChangeStartDate
    \/ ChangeEndDate
    \/ ChangeProductLines
    \/ ChangeCountries
    \/ ChangeStatuses
    \/ ToggleCombine
    \/ EditFeedback
    \/ PressSearch
    \/ SubmitFeedback

Spec == Init /\ [][Next]_vars

(* C5 as stated: when the selection matches zero rows, the KPIs shown are  *)
(* all defined: the average sales per order is not a division by zero.     *)
C5_KpisDefinedOnZeroRows ==
    ("kpi" \in view.shown /\ Len(view.filtered_data) = 0) =>
        /\ view.kpis[1].finite
        /\ view.kpis[3].finite

(* C9 as stated: the rows the KPIs, charts and export are made from all    *)
(* have their ORDERDATE between the start date and the end date chosen.    *)
C9_RowsWithinDateRange ==
    "kpi" \in view.shown =>
        \A i \in DOMAIN view.filtered_data :
            /\ widgets.start_date <= view.filtered_data[i].ORDERDATE
            /\ view.filtered_data[i].ORDERDATE <= widgets.end_date

(* C10 as stated: after every interaction the page shows the KPIs, the     *)
(* charts and the export, made from the rows the current filter values     *)
(* select.                                                                 *)
C10_EveryInteractionRendersDashboard ==
    view.trigger \notin {"none", "open"} =>
        /\ Elements \subseteq view.shown
        /\ view.filtered_data = apply_filters(data, Columns, selections(widgets))

----------------------------------------------------------------------------
(* SpecPredict: the prediction page.  The script has no main: its body     *)
(* runs when the page is opened and after every interaction.  The forest   *)
(* and its numbers are not computed: a run records whether the model was   *)
(* fitted, the denominator of the adjusted R-squared and what was shown.   *)

PredictRows ==
    {Row(10100, "Atelier graphique", 100, 1, p, co, "Shipped", q) :
        p \in ProductLines, co \in Countries, q \in Quarters}

features == <<"Ordered Quantity", "Price for Each">>

(* st.selectbox: the first option until the user picks one. *)
selectbox_default(d) ==
    [selected_product |-> unique(d, "PRODUCTLINE")[1],
     selected_country |-> unique(d, "COUNTRY")[1],
     selected_quarter |-> unique(d, "QTR_ID")[1]]

(* df[(PRODUCTLINE == selected_product) & (COUNTRY == selected_country)    *)
(*    & (QTR_ID == selected_quarter)]                                      *)
filtered_df(d, sel) ==
    SelectSeq(d, LAMBDA r : /\ r.PRODUCTLINE = sel.selected_product
                            /\ r.COUNTRY = sel.selected_country
                            /\ r.QTR_ID = sel.selected_quarter)

(* adjusted_r2 = 1 - (1 - r2) * (len(y) - 1) / (len(y) - X.shape[1] - 1).  *)
(* The denominator is not tested.  When it is zero the outcome depends on  *)
(* the number r2_score returned: a Python float raises ZeroDivisionError   *)
(* and the run stops there; a numpy float gives inf or nan, which is       *)
(* printed.  A negative denominator gives a number.                        *)
adjusted_r2(n) ==
    LET denominator == n - Len(features) - 1
    IN IF denominator = 0 THEN {"ZeroDivisionError", "inf or nan"} ELSE {"number"}

(* One run of the script: the views it can end with. *)
predict_script(d, sel, trigger) ==
    LET n == Len(filtered_df(d, sel))
    IN IF n > 1
       THEN {[trigger |-> trigger, n |-> n, trained |-> TRUE, adjusted_r2 |-> a,
              denominator |-> n - Len(features) - 1,
              shown |-> IF a = "ZeroDivisionError" THEN {}
                        ELSE {"metrics", "plots", "form"}
                               \cup (IF trigger = "predict" THEN {"prediction"} ELSE {}),
              crashed |-> (a = "ZeroDivisionError")] : a \in adjusted_r2(n)}
       ELSE {[NoPView EXCEPT !.trigger = trigger, !.n = n, !.shown = {"warning"}]}

InitPredict ==
    /\ data \in SeqsFromTo(PredictRows, 1, MaxPredictRows)
    /\ f_call = NoFilterCall
    /\ k_call = NoKpiCall
    /\ page = "predict"
    /\ widgets = NoWidgets
    /\ view = NoView
    /\ p_sel = selectbox_default(data)
    /\ p_view = NoPView

RerunPredict(sel, trigger) ==
    /\ p_sel' = sel
    /\ p_view' \in predict_script(data, sel, trigger)
    /\ UNCHANGED <<data, f_call, k_call, page, widgets, view>>

OpenPredict ==
    /\ p_view.trigger = "none"
    /\ RerunPredict(p_sel, "open")

SelectProduct ==
    /\ p_view.trigger # "none"
    /\ \E v \in Range(unique(data, "PRODUCTLINE")) \ {p_sel.selected_product} :
          RerunPredict([p_sel EXCEPT !.selected_product = v], "filter")

SelectCountry ==
    /\ p_view.trigger # "none"
    /\ \E v \in Range(unique(data, "COUNTRY")) \ {p_sel.selected_country} :
          RerunPredict([p_sel EXCEPT !.selected_country = v], "filter")

SelectQuarter ==
    /\ p_view.trigger # "none"
    /\ \E v \in Range(unique(data, "QTR_ID")) \ {p_sel.selected_quarter} :
          RerunPredict([p_sel EXCEPT !.selected_quarter = v], "filter")

(* A new value in one of the number inputs of the form. *)
EnterFeatureValue ==
    /\ "form" \in p_view.shown
    /\ RerunPredict(p_sel, "input")

PredictSales ==
    /\ "form" \in p_view.shown
    /\ RerunPredict(p_sel, "predict")

NextPredict ==
    \/ OpenPredict
    \/ SelectProduct
    \/ SelectCountry
    \/ SelectQuarter
    \/ EnterFeatureValue
    \/ PredictSales

SpecPredict == InitPredict /\ [][NextPredict]_vars

(* The rows the current selection of the prediction page matches. *)
Matching ==
    Cardinality({i \in DOMAIN data :
                    /\ data[i].PRODUCTLINE = p_sel.selected_product
                    /\ data[i].COUNTRY = p_sel.selected_country
                    /\ data[i].QTR_ID = p_sel.selected_quarter})

(* C6 as stated: after a run of the prediction page the model is trained,  *)
(* the metrics are shown and the prediction form is offered if and only if *)
(* the selection matches more than one row; with zero or one row nothing   *)
(* of it happens and the warning is shown instead.                         *)
C6_TrainsIffMoreThanOneRow ==
    p_view.trigger # "none" =>
        /\ Matching > 1 =>
              /\ p_view.trained
              /\ {"metrics", "form"} \subseteq p_view.shown
              /\ "warning" \notin p_view.shown
        /\ Matching <= 1 =>
              /\ ~p_view.trained
              /\ p_view.shown = {"warning"}

(* C7 as stated: when the model is trained on no more rows than the        *)
(* feature count plus one, the adjusted R-squared is reported as not       *)
(* applicable; its formula is never evaluated with a zero or negative      *)
(* denominator, and the run does not crash.                                *)
C7_AdjustedR2Guarded ==
    p_view.trained =>
        /\ p_view.n <= Len(features) + 1 => p_view.adjusted_r2 = "not applicable"
        /\ p_view.adjusted_r2 \in {"number", "inf or nan", "ZeroDivisionError"}
              => p_view.denominator > 0
        /\ ~p_view.crashed
====
